---- MODULE Spec2Model ----
(***************************************************************************)
(* McplConnection (src/src/connection.rs): a bidirectional JSON-RPC 2.0    *)
(* connection over newline-delimited JSON, with the message types of       *)
(* src/src/types.rs.                                                       *)
(*                                                                         *)
(* Two connection objects "a" and "b" exist.  inbox[c] is the byte stream   *)
(* c's reader reads, as the sequence of lines not yet read; a line written *)
(* by c goes to inbox[Peer(c)].  Under Spec and LineSpec only "a" is a     *)
(* McplConnection and the other end of its stream is an arbitrary peer     *)
(* that writes lines of its own choosing (RawInject, PeerClose), so        *)
(* inbox["b"] is the record of everything "a" wrote.  Under PairSpec both  *)
(* ends are McplConnections joined by two reliable FIFO streams.           *)
(*                                                                         *)
(* A blocking operation is split at its suspension points: the call itself *)
(* (up to the first read) and one step per line read from the stream.      *)
(***************************************************************************)
EXTENDS Integers, Sequences, FiniteSets, TLC

\* ---------------------------------------------------------------- bounds
\* public operations the owner starts on "a" under Spec and LineSpec
MaxOps == 2
\* lines the arbitrary peer writes under Spec
MaxRaw == 3
\* public operations each owner starts under PairSpec
MaxPairOps == 2
\* messages handed to the write_message of "b" under CodecSpec
MaxSent == 1

Conns == {"a", "b"}

Peer(c) == IF c = "a" THEN "b" ELSE "a"

\* ------------------------------------------------------------ JSON values
\* A JSON value in a field of a line, or a Rust Option<..> of a typed
\* message.  t: "absent" (field missing / None), "null", "num", "str",
\* "bool" (a value of another JSON type), "errobj" (an object with an
\* integer code n and a string message s, with no data member), "errobjd"
\* (the same with the member data: null), "badobj" (an object without a
\* usable code).
V(t, n, s) == [t |-> t, n |-> n, s |-> s]

Absent == V("absent", 0, "")

JNull == V("null", 0, "")

JNum(n) == V("num", n, "")

JStr(s) == V("str", 0, s)

JBool == V("bool", 0, "")

ErrObj(code, message) == V("errobj", code, message)

\* JsonRpcError { code, message, data: Some(Value::Null) }
ErrObjNullData(code, message) == V("errobjd", code, message)

BadErrObj == V("badobj", 0, "")

ERR_CHECKPOINT_NOT_FOUND == -32005

\* ------------------------------------------------------------------ lines
\* One line of the stream.  kind: "blank" (trims to empty), "garbage" (not
\* JSON), "null" (the JSON literal null), "scalar" (any other JSON value
\* that is not an object: array, number, string, boolean), "object".
Line(kind, jsonrpc, id, method, params, result, error) ==
    [kind |-> kind, jsonrpc |-> jsonrpc, id |-> id, method |-> method,
     params |-> params, result |-> result, error |-> error]

NonObject(kind) == Line(kind, Absent, Absent, Absent, Absent, Absent, Absent)

BlankLine == NonObject("blank")

GarbageLine == NonObject("garbage")

NullLine == NonObject("null")

ScalarLine == NonObject("scalar")

NoLine == NonObject("none")

\* ---------------------------------------------------------- typed messages
Msg(cls, id, method, params, result, error) ==
    [cls |-> cls, id |-> id, method |-> method, params |-> params,
     result |-> result, error |-> error]

NoMsg == Msg("none", Absent, Absent, Absent, Absent, Absent)

\* JsonRpcRequest::new
NewRequest(id, method, params) ==
    Msg("Request", JNum(id), JStr(method), params, Absent, Absent)

NewNotificationNoParams(method, params) ==
    Msg("Notification", Absent, JStr(method), Absent, Absent, Absent)

\* JsonRpcNotification::new
NewNotification(method, params) ==
    Msg("Notification", Absent, JStr(method), params, Absent, Absent)

\* JsonRpcResponse::success: result is Some(result), whatever the value
ResponseSuccess(id, result) ==
    Msg("Response", id, Absent, Absent, result, Absent)

ResponseErrorWithResult(id, code, message) ==
    Msg("Response", id, Absent, Absent, JNull, ErrObj(code, message))

\* JsonRpcResponse::error, with the JsonRpcError send_error builds
ResponseError(id, code, message) ==
    Msg("Response", id, Absent, Absent, Absent, ErrObj(code, message))

EncodeStringIds(m) ==
    Line("object", JStr("2.0"),
         IF m.id.t = "num" THEN V("str", m.id.n, "") ELSE m.id,
         m.method, m.params, m.result, m.error)

\* serde_json::to_string of a JsonRpcMessage (untagged): the fields of the
\* inner struct; an Option that is None is skipped, Some(v) is written as v
\* (Some(Null) as null).
Encode(m) ==
    Line("object", JStr("2.0"), m.id, m.method, m.params, m.result, m.error)

HasNonNull(line, f) ==
    line.kind = "object" /\ line[f].t \notin {"absent", "null"}

\* value.get(f).is_some(): the value is an object and has the key, whatever
\* the key's value (null included)
Has(line, f) == line.kind = "object" /\ line[f].t # "absent"

ClassifySwapped(line) ==
    IF Has(line, "id") /\ (Has(line, "result") \/ Has(line, "error"))
    THEN "Response"
    ELSE IF Has(line, "id") /\ Has(line, "method") THEN "Request"
    ELSE IF Has(line, "method") /\ ~Has(line, "id") THEN "Notification"
    ELSE "Unrecognized"

\* the if / else-if chain of read_next_internal
Classify(line) ==
    IF Has(line, "id") /\ Has(line, "method") THEN "Request"
    ELSE IF Has(line, "id") /\ (Has(line, "result") \/ Has(line, "error"))
    THEN "Response"
    ELSE IF Has(line, "method") /\ ~Has(line, "id") THEN "Notification"
    ELSE "Unrecognized"

\* Deserialize of Option<T>: a missing field and null both give None
OptValue(v) == IF v.t = "null" THEN Absent ELSE v

\* JsonRpcId (untagged): an integer or a string, nothing else
IdOk(v) == v.t \in {"num", "str"}

\* a required String field
StringOk(v) == v.t = "str"

\* Option<JsonRpcError>: missing, null, or an object with code and message
ErrorOk(v) == v.t \in {"absent", "null", "errobj", "errobjd"}

\* Deserialize of Option<JsonRpcError>: null gives None, and the Option
\* data inside the object takes null as None
OptError(v) ==
    IF v.t = "null" THEN Absent
    ELSE IF v.t = "errobjd" THEN ErrObj(v.n, v.s)
    ELSE v

\* serde_json::from_value::<T>(value) succeeds, T the struct of class cls;
\* unknown fields are ignored
DecodeOk(line, cls) ==
    /\ StringOk(line.jsonrpc)
    /\ cls \in {"Request", "Response"} => IdOk(line.id)
    /\ cls \in {"Request", "Notification"} => StringOk(line.method)
    /\ cls = "Response" => ErrorOk(line.error)

\* the typed message from_value gives
Decode(line, cls) ==
    CASE cls = "Request" ->
           Msg("Request", line.id, line.method, OptValue(line.params),
               Absent, Absent)
      [] cls = "Response" ->
           Msg("Response", line.id, Absent, Absent, OptValue(line.result),
               OptError(line.error))
      [] OTHER ->
           Msg("Notification", Absent, line.method, OptValue(line.params),
               Absent, Absent)

\* serde_json::from_str::<()>(trimmed) is Ok: the unit type parses from null
UnitParseOk(line) == line.kind = "null"

Outcome(r, m) == [r |-> r, msg |-> m]

InternalMessageAllIncoming(cls, m) == Outcome("Incoming", m)

\* Ok(InternalMessage::Response(..)) for a Response,
\* Ok(InternalMessage::Incoming(..)) for a Request or a Notification
InternalMessage(cls, m) ==
    IF cls = "Response" THEN Outcome("Response", m) ELSE Outcome("Incoming", m)

BlankIsJsonError == Outcome("Json", NoMsg)

\* trimmed.is_empty(): continue, the loop reads the next line
SkipBlank == Outcome("skip", NoMsg)

\* One iteration of the loop of read_next_internal on a line that was read:
\* "skip" (continue), "Json" (Err(ConnectionError::Json)), "panic"
\* (unwrap_err on an Ok), "Response" or "Incoming" (Ok(InternalMessage)).
ReadLine(line) ==
    IF line.kind = "blank" THEN SkipBlank
    ELSE IF line.kind = "garbage" THEN Outcome("Json", NoMsg)
    ELSE LET cls == Classify(line) IN
         IF cls = "Unrecognized"
         THEN IF UnitParseOk(line) THEN Outcome("panic", NoMsg)
              ELSE Outcome("Json", NoMsg)
         ELSE IF ~DecodeOk(line, cls) THEN Outcome("Json", NoMsg)
         ELSE InternalMessage(cls, Decode(line, cls))

\* ------------------------------------------------------------------ state
VARIABLES
    next_id,       \* next_id[c]: McplConnection.next_id
    pending,       \* pending[c]: the keys of McplConnection.pending
    pc,            \* pc[c]: "idle", or the public operation c is blocked in
    awaiting,      \* awaiting[c]: the local `id` of the running send_request
    inbox,         \* inbox[c]: the lines c's reader has not read yet
    closed,        \* closed[c]: the writing end of c's inbound stream is gone
    broken,        \* broken[c]: the reading end of c's outbound stream is gone
    ret,           \* ret[c]: what c's last finished operation returned
    budget,        \* budget[c]: operations c's owner may still start
    nraw,          \* lines the arbitrary peer has written so far
    lastLine,      \* lastLine[c]: the last line c read from its stream
    readIncoming,  \* readIncoming[c]: the Requests/Notifications c has read
    delivered,     \* delivered[c]: the messages next_message has returned
    requestIds,    \* requestIds[c]: the ids of the Requests send_request built
    calls,         \* calls[c]: the arguments of the operations c's owner started
    sent,          \* sent[c]: the messages c's write_message has written
    caps,          \* a McplCapabilities value
    answers        \* the <<method, value>> pairs the has_* methods returned

vars ==
    <<next_id, pending, pc, awaiting, inbox, closed, broken, ret, budget,
      nraw, lastLine, readIncoming, delivered, requestIds, calls, sent,
      caps, answers>>

\* the connections and what is recorded about them
connection ==
    <<next_id, pending, pc, awaiting, inbox, closed, broken, ret, budget,
      nraw, lastLine, readIncoming, delivered, requestIds, calls, sent>>

\* the capability declaration and what was asked of it
capvars == <<caps, answers>>

\* ------------------------------------------------------------ capabilities
\* Option<T>: None, Some(x)
None == <<>>

Some(x) == <<x>>

\* InferenceRequestCap: Simple(bool) | Detailed(InferenceRequestDetail)
Simple(b) == [tag |-> "Simple", streaming |-> b]

Detailed(streaming) == [tag |-> "Detailed", streaming |-> streaming]

is_enabled_simple_only(cap) ==
    IF cap.tag = "Simple" THEN cap.streaming ELSE FALSE

\* InferenceRequestCap::is_enabled
is_enabled(cap) ==
    IF cap.tag = "Simple" THEN cap.streaming ELSE TRUE

\* InferenceRequestCap::supports_streaming
supports_streaming(cap) ==
    IF cap.tag = "Simple" THEN FALSE ELSE cap.streaming

\* McplCapabilities::has_inference_request
has_inference_request(self) ==
    IF self.inference_request = None THEN FALSE
    ELSE is_enabled(self.inference_request[1])

\* McplCapabilities::has_inference_streaming
has_inference_streaming(self) ==
    IF self.inference_request = None THEN FALSE
    ELSE supports_streaming(self.inference_request[1])

\* McplCapabilities::new: the version and every other field at its default
McplCapabilities_new(version) ==
    [version |-> version, push_events |-> None, context_hooks |-> None,
     inference_request |-> None, stream_observer |-> None, rollback |-> None,
     channels |-> None, model_info |-> None, feature_sets |-> None,
     scoped_access |-> None]

\* Option<bool>
OptionBool == {None, Some(TRUE), Some(FALSE)}

\* Option<InferenceRequestCap>
OptionInferenceRequestCap ==
    {None} \cup {Some(Simple(b)) : b \in BOOLEAN}
           \cup {Some(Detailed(b)) : b \in BOOLEAN}

\* the McplCapabilities values with every flag and the inferenceRequest
\* field free; contextHooks and featureSets, which no has_* method reads,
\* stay None
AllCapabilities ==
    {[McplCapabilities_new("0.4") EXCEPT
        !.push_events = pe, !.inference_request = ir,
        !.stream_observer = so, !.rollback = rb, !.channels = ch,
        !.model_info = mi, !.scoped_access = sa] :
        pe \in OptionBool, ir \in OptionInferenceRequestCap,
        so \in OptionBool, rb \in OptionBool, ch \in OptionBool,
        mi \in OptionBool, sa \in OptionBool}

\* no capability declaration is under examination
NoCapabilities == caps = McplCapabilities_new("0.4") /\ answers = {}

conn == <<next_id, pending, pc, awaiting, ret, budget>>

history == <<lastLine, readIncoming, delivered, requestIds>>

\* what an operation returned: Ok(val) / Ok(msg) / Err(kind)
Ret(op, kind, val, msg) == [op |-> op, kind |-> kind, val |-> val, msg |-> msg]

NoRet == Ret("none", "none", Absent, NoMsg)

\* the arguments of one call of a public operation: the id, method and
\* value (params or result) it was given, and send_error's code and message
Args(op, id, method, value, code, message) ==
    [op |-> op, id |-> id, method |-> method, value |-> value, code |-> code,
     message |-> message]

\* from_tcp / from_parts: next_id starts at 1, pending is empty
from_parts(ops) ==
    /\ next_id = [c \in Conns |-> 1]
    /\ pending = [c \in Conns |-> {}]
    /\ pc = [c \in Conns |-> "idle"]
    /\ awaiting = [c \in Conns |-> 0]
    /\ closed = [c \in Conns |-> FALSE]
    /\ broken = [c \in Conns |-> FALSE]
    /\ ret = [c \in Conns |-> NoRet]
    /\ budget = ops
    /\ nraw = 0
    /\ lastLine = [c \in Conns |-> NoLine]
    /\ readIncoming = [c \in Conns |-> <<>>]
    /\ delivered = [c \in Conns |-> <<>>]
    /\ requestIds = [c \in Conns |-> <<>>]
    /\ calls = [c \in Conns |-> <<>>]
    /\ sent = [c \in Conns |-> <<>>]

Init ==
    /\ from_parts([c \in Conns |-> IF c = "a" THEN MaxOps ELSE 0])
    /\ NoCapabilities
    /\ inbox = [c \in Conns |-> <<>>]

\* ----------------------------------------------------------------- inputs
\* <<method, params>> of a send_request / send_notification call
CallInputs == {<<"ping", Absent>>, <<"event", JStr("p")>>}

\* <<method, params>> of a send_notification call; params may be Some(Null)
NotificationInputs == {<<"event", JStr("p")>>, <<"event", JNull>>}

ResultChoices == {JNull, JStr("r")}

\* the ids of the Requests next_message has handed to c's owner
ReplyIds(c) ==
    {delivered[c][i].id : i \in {j \in DOMAIN delivered[c] :
                                   delivered[c][j].cls = "Request"}}

RespIds == {1, 2}

NotifLine == Encode(NewNotification("event", Absent))

ReqLine == Encode(NewRequest(7, "ping", Absent))

RespLine(k) == Encode(ResponseSuccess(JNum(k), JNum(10 + k)))

ErrLine(k) ==
    Encode(ResponseError(JNum(k), ERR_CHECKPOINT_NOT_FOUND,
                         "Checkpoint not found"))

\* what the arbitrary peer writes under Spec
RawLines ==
    {BlankLine, GarbageLine, NotifLine, ReqLine, ErrLine(1)}
        \cup {RespLine(k) : k \in RespIds}

\* -------------------------------------------------------------- operations
FetchAddStuck(id) == id

\* next_id.fetch_add(1, Relaxed): the value stored back (an i64; the model's
\* counters stay far below its range)
FetchAdd(id) == id + 1

write_message_front(c, m) ==
    IF broken[c]
    THEN UNCHANGED <<inbox, sent>>
    ELSE /\ inbox' = [inbox EXCEPT ![Peer(c)] = <<Encode(m)>> \o @]
         /\ sent' = [sent EXCEPT ![c] = Append(@, m)]

write_message_draining(c, m) ==
    IF broken[c]
    THEN /\ inbox' = [inbox EXCEPT ![c] = <<>>]
         /\ UNCHANGED sent
    ELSE /\ inbox' = [inbox EXCEPT ![Peer(c)] = Append(@, Encode(m)),
                                   ![c] = <<>>]
         /\ sent' = [sent EXCEPT ![c] = Append(@, m)]

NextIdRolledBack(c) ==
    IF broken[c] THEN next_id ELSE [next_id EXCEPT ![c] = FetchAdd(@)]

NextIdShared(c) == [d \in Conns |-> FetchAdd(next_id[c])]

\* self.next_id.fetch_add(1, ..): the counter is a field of the connection
NextIdAfter(c) == [next_id EXCEPT ![c] = FetchAdd(@)]

\* write_message: one line for the message, written and flushed; the write
\* fails when the other end of the stream is gone
write_message(c, m) ==
    IF broken[c]
    THEN UNCHANGED <<inbox, sent>>
    ELSE /\ inbox' = [inbox EXCEPT ![Peer(c)] = Append(@, Encode(m))]
         /\ sent' = [sent EXCEPT ![c] = Append(@, m)]

\* send_request up to its first read
send_request(c, method, params) ==
    LET id == next_id[c] IN
    /\ pc[c] = "idle"
    /\ budget[c] > 0
    /\ budget' = [budget EXCEPT ![c] = @ - 1]
    /\ next_id' = NextIdAfter(c)
    /\ pending' = [pending EXCEPT ![c] = @ \cup {JNum(id)}]
    /\ requestIds' = [requestIds EXCEPT ![c] = Append(@, id)]
    /\ calls' = [calls EXCEPT ![c] =
                   Append(@, Args("send_request", Absent, method, params, 0, ""))]
    /\ write_message(c, NewRequest(id, method, params))
    /\ IF broken[c]
       THEN /\ ret' = [ret EXCEPT ![c] = Ret("send_request", "Io", Absent, NoMsg)]
            /\ UNCHANGED <<pc, awaiting>>
       ELSE /\ pc' = [pc EXCEPT ![c] = "send_request"]
            /\ awaiting' = [awaiting EXCEPT ![c] = id]
            /\ UNCHANGED ret
    /\ UNCHANGED <<closed, broken, nraw, lastLine, readIncoming, delivered>>
    /\ UNCHANGED capvars

\* an operation that only writes: send_notification, send_response, send_error
send_only(c, m, args) ==
    /\ pc[c] = "idle"
    /\ budget[c] > 0
    /\ budget' = [budget EXCEPT ![c] = @ - 1]
    /\ calls' = [calls EXCEPT ![c] = Append(@, args)]
    /\ write_message(c, m)
    /\ ret' = [ret EXCEPT ![c] =
                 Ret(args.op, IF broken[c] THEN "Io" ELSE "Ok", Absent, NoMsg)]
    /\ UNCHANGED <<next_id, pending, pc, awaiting, closed, broken, nraw,
                   history>>
    /\ UNCHANGED capvars

send_notification(c, method, params) ==
    send_only(c, NewNotification(method, params),
              Args("send_notification", Absent, method, params, 0, ""))

send_response(c, id, result) ==
    send_only(c, ResponseSuccess(id, result),
              Args("send_response", id, "", result, 0, ""))

send_error(c, id, code, message) ==
    send_only(c, ResponseError(id, code, message),
              Args("send_error", id, "", Absent, code, message))

\* next_message up to its first read
next_message(c) ==
    /\ pc[c] = "idle"
    /\ budget[c] > 0
    /\ budget' = [budget EXCEPT ![c] = @ - 1]
    /\ pc' = [pc EXCEPT ![c] = "next_message"]
    /\ calls' = [calls EXCEPT ![c] =
                   Append(@, Args("next_message", Absent, "", Absent, 0, ""))]
    /\ UNCHANGED <<next_id, pending, awaiting, inbox, closed, broken, ret,
                   nraw, history, sent>>
    /\ UNCHANGED capvars

\* the operation c is blocked in returns r
Return(c, r) ==
    /\ pc' = [pc EXCEPT ![c] = "idle"]
    /\ awaiting' = [awaiting EXCEPT ![c] = 0]
    /\ ret' = [ret EXCEPT ![c] = r]

\* the operation c is blocked in panics; the task that owns c unwinds
Panic(c) ==
    /\ pc' = [pc EXCEPT ![c] = "panicked"]
    /\ awaiting' = [awaiting EXCEPT ![c] = 0]
    /\ ret' = [ret EXCEPT ![c] = Ret(pc[c], "panic", Absent, NoMsg)]

ContinueTimesOut(c) ==
    /\ pc' = [pc EXCEPT ![c] = "idle"]
    /\ awaiting' = [awaiting EXCEPT ![c] = 0]
    /\ ret' = [ret EXCEPT ![c] = Ret(pc[c], "Timeout", Absent, NoMsg)]

\* the operation c is blocked in keeps reading
Continue(c) == UNCHANGED <<pc, awaiting, ret>>

PropagateAsRpc(c, out) == Return(c, Ret(pc[c], "Rpc", Absent, NoMsg))

\* `?` on read_next_internal: an Err, or the panic, leaves the operation.
\* ConnectionError::Json wraps the serde_json::Error alone (a message and a
\* position): nothing of the line read goes into the returned value.
Propagate(c, out) ==
    IF out.r = "panic" THEN Panic(c)
    ELSE Return(c, Ret(pc[c], out.r, Absent, NoMsg))

ResolveIgnoringError(resp) ==
    Ret("send_request", "Ok",
        IF resp.result = Absent THEN JNull ELSE resp.result, NoMsg)

ResolveRequiringResult(resp) ==
    IF resp.error # Absent
    THEN Ret("send_request", "Rpc", resp.error, NoMsg)
    ELSE IF resp.result = Absent
    THEN Ret("send_request", "UnexpectedResponse", resp.id, NoMsg)
    ELSE Ret("send_request", "Ok", resp.result, NoMsg)

ResolveResultFirst(resp) ==
    IF resp.result # Absent
    THEN Ret("send_request", "Ok", resp.result, NoMsg)
    ELSE IF resp.error # Absent
         THEN Ret("send_request", "Rpc", resp.error, NoMsg)
         ELSE Ret("send_request", "Ok", JNull, NoMsg)

\* the Response branch for a Response whose id is the call's own
\* (connection.rs 93-101)
Resolve(resp) ==
    IF resp.error # Absent
    THEN Ret("send_request", "Rpc", resp.error, NoMsg)
    ELSE Ret("send_request", "Ok",
             IF resp.result = Absent THEN JNull ELSE resp.result, NoMsg)

MatchesAny(resp, id) == TRUE

MatchesStringId(resp, id) == resp.id.t = "str" /\ resp.id.n = id

\* resp.id == JsonRpcId::Number(id)
Matches(resp, id) == resp.id = JNum(id)

\* self.pending.remove(&resp.id), the sender's send going nowhere
RouteOther(c, resp) == pending' = [pending EXCEPT ![c] = @ \ {resp.id}]

OrphanIsError(c, resp) ==
    /\ Return(c, Ret(pc[c], "UnexpectedResponse", resp.id, NoMsg))
    /\ UNCHANGED pending

\* a Response that is not the awaited one: routed to a pending sender if
\* there is one, and the loop goes on
Orphan(c, resp) == RouteOther(c, resp) /\ Continue(c)

ConsumeAll(c) == inbox' = [inbox EXCEPT ![c] = <<>>]

\* reader.read_line: the bytes up to and including the next newline leave
\* the stream, whatever becomes of the line afterwards
Consume(c) == inbox' = [inbox EXCEPT ![c] = Tail(@)]

\* one line read by the loop of send_request
SendRequestRead(c) ==
    /\ pc[c] = "send_request"
    /\ inbox[c] # <<>>
    /\ LET line == Head(inbox[c])
           out == ReadLine(line)
       IN /\ Consume(c)
          /\ lastLine' = [lastLine EXCEPT ![c] = line]
          /\ CASE out.r = "skip" ->
                    /\ Continue(c)
                    /\ UNCHANGED <<pending, readIncoming>>
               [] out.r = "Response" ->
                    IF Matches(out.msg, awaiting[c])
                    THEN /\ Return(c, Resolve(out.msg))
                         /\ UNCHANGED <<pending, readIncoming>>
                    ELSE /\ Orphan(c, out.msg)
                         /\ UNCHANGED readIncoming
               [] out.r = "Incoming" ->
                    \* tracing::warn!, and the message is dropped
                    /\ readIncoming' =
                         [readIncoming EXCEPT ![c] = Append(@, out.msg)]
                    /\ Continue(c)
                    /\ UNCHANGED pending
               [] OTHER ->
                    /\ Propagate(c, out)
                    /\ UNCHANGED <<pending, readIncoming>>
    /\ UNCHANGED <<next_id, closed, broken, budget, nraw, delivered,
                   requestIds, calls, sent>>
    /\ UNCHANGED capvars

\* one line read by the loop of next_message
NextMessageRead(c) ==
    /\ pc[c] = "next_message"
    /\ inbox[c] # <<>>
    /\ LET line == Head(inbox[c])
           out == ReadLine(line)
       IN /\ Consume(c)
          /\ lastLine' = [lastLine EXCEPT ![c] = line]
          /\ CASE out.r = "skip" ->
                    /\ Continue(c)
                    /\ UNCHANGED <<pending, readIncoming, delivered>>
               [] out.r = "Response" ->
                    /\ Orphan(c, out.msg)
                    /\ UNCHANGED <<readIncoming, delivered>>
               [] out.r = "Incoming" ->
                    /\ Return(c, Ret("next_message", "Ok", Absent, out.msg))
                    /\ readIncoming' =
                         [readIncoming EXCEPT ![c] = Append(@, out.msg)]
                    /\ delivered' = [delivered EXCEPT ![c] = Append(@, out.msg)]
                    /\ UNCHANGED pending
               [] OTHER ->
                    /\ Propagate(c, out)
                    /\ UNCHANGED <<pending, readIncoming, delivered>>
    /\ UNCHANGED <<next_id, closed, broken, budget, nraw, requestIds, calls, sent>>
    /\ UNCHANGED capvars

ReadClosedHang(c) == FALSE /\ UNCHANGED vars

\* read_line returns 0 bytes: end of stream
ReadClosed(c) ==
    /\ pc[c] \in {"send_request", "next_message"}
    /\ inbox[c] = <<>>
    /\ closed[c]
    /\ Return(c, Ret(pc[c], "Closed", Absent, NoMsg))
    /\ UNCHANGED <<next_id, pending, inbox, closed, broken, budget, nraw,
                   history, calls, sent>>
    /\ UNCHANGED capvars

\* read_line fails: the transport reports an I/O error to the blocked read
ReadFail(c) ==
    /\ pc[c] \in {"send_request", "next_message"}
    /\ Return(c, Ret(pc[c], "Io", Absent, NoMsg))
    /\ UNCHANGED <<next_id, pending, inbox, closed, broken, budget, nraw,
                   history, calls, sent>>
    /\ UNCHANGED capvars

\* the owner drops the future of the operation c is blocked in (a select!
\* or a timeout around the call); the connection itself is left as it is
Cancel(c) ==
    /\ pc[c] \in {"send_request", "next_message"}
    /\ Return(c, Ret(pc[c], "cancelled", Absent, NoMsg))
    /\ calls' = [calls EXCEPT ![c] =
                   Append(@, Args("cancel",
                                  IF pc[c] = "send_request"
                                  THEN JNum(awaiting[c]) ELSE Absent,
                                  "", Absent, 0, ""))]
    /\ UNCHANGED <<next_id, pending, inbox, closed, broken, budget, nraw,
                   history, sent>>
    /\ UNCHANGED capvars

\* ------------------------------------------------------------- environment
\* the arbitrary peer writes a line
RawInject(c, line) ==
    /\ nraw < MaxRaw
    /\ ~closed[c]
    /\ nraw' = nraw + 1
    /\ inbox' = [inbox EXCEPT ![c] = Append(@, line)]
    /\ UNCHANGED <<conn, closed, broken, history, calls, sent>>
    /\ UNCHANGED capvars

\* the arbitrary peer closes both directions of the stream
PeerClose(c) ==
    /\ ~closed[c]
    /\ closed' = [closed EXCEPT ![c] = TRUE]
    /\ broken' = [broken EXCEPT ![c] = TRUE]
    /\ UNCHANGED <<conn, inbox, nraw, history, calls, sent>>
    /\ UNCHANGED capvars

\* the owner of c drops the connection object
Drop(c) ==
    /\ pc[c] = "idle"
    /\ pc' = [pc EXCEPT ![c] = "dropped"]
    /\ closed' = [closed EXCEPT ![Peer(c)] = TRUE]
    /\ broken' = [broken EXCEPT ![Peer(c)] = TRUE]
    /\ UNCHANGED <<next_id, pending, awaiting, inbox, ret, budget, nraw,
                   history, calls, sent>>
    /\ UNCHANGED capvars

\* ---------------------------------------------------------- specifications
OwnerStep(c) ==
    \/ \E in \in CallInputs : send_request(c, in[1], in[2])
    \/ \E in \in NotificationInputs : send_notification(c, in[1], in[2])
    \/ \E id \in ReplyIds(c), result \in ResultChoices :
          send_response(c, id, result)
    \/ \E id \in ReplyIds(c) :
          send_error(c, id, ERR_CHECKPOINT_NOT_FOUND, "Checkpoint not found")
    \/ next_message(c)
    \/ SendRequestRead(c)
    \/ NextMessageRead(c)
    \/ ReadClosed(c)

\* "a" against an arbitrary peer
Next ==
    \/ OwnerStep("a")
    \/ \E line \in RawLines : RawInject("a", line)
    \/ PeerClose("a")

Spec == Init /\ [][Next]_vars

\* two connections joined by reliable FIFO streams
PairInit ==
    /\ from_parts([c \in Conns |-> MaxPairOps])
    /\ NoCapabilities
    /\ inbox = [c \in Conns |-> <<>>]

PairNext == \E c \in Conns : OwnerStep(c) \/ Drop(c)

PairSpec == PairInit /\ [][PairNext]_vars

\* the two connections with their reads scheduled: a read_line that can
\* complete (a line is waiting, or the stream is at its end) does complete
FairPairSpec ==
    /\ PairInit /\ [][PairNext]_vars
    /\ \A c \in Conns : /\ WF_vars(SendRequestRead(c))
                        /\ WF_vars(NextMessageRead(c))
                        /\ WF_vars(ReadClosed(c))

\* one arbitrary line waits in the stream of "a"
FieldIds == {Absent, JNull, JNum(1), JNum(2), JStr("1"), JBool}

FieldMethods == {Absent, JStr("ping"), JBool}

FieldParams == {Absent, JNull}

FieldResults == {Absent, JNull, JNum(11)}

FieldErrors ==
    {Absent, JNull, ErrObj(ERR_CHECKPOINT_NOT_FOUND, "Checkpoint not found"),
     BadErrObj}

AllLines ==
    {BlankLine, GarbageLine, NullLine, ScalarLine}
        \cup {Line("object", j, i, m, p, r, e) :
                j \in {Absent, JStr("2.0")}, i \in FieldIds,
                m \in FieldMethods, p \in FieldParams, r \in FieldResults,
                e \in FieldErrors}

LineInit ==
    /\ from_parts([c \in Conns |-> IF c = "a" THEN MaxOps ELSE 0])
    /\ NoCapabilities
    /\ \E line \in AllLines : inbox = [c \in Conns |-> IF c = "a" THEN <<line>> ELSE <<>>]

LineNext == OwnerStep("a") \/ PeerClose("a") \/ ReadFail("a")

LineSpec == LineInit /\ [][LineNext]_vars

\* calls of send_request that the owner may abandon, against a peer that
\* answers late, twice or not at all
CancelLines == {RespLine(k) : k \in RespIds} \cup {ErrLine(1), NotifLine}

CancelNext ==
    \/ \E in \in CallInputs : send_request("a", in[1], in[2])
    \/ SendRequestRead("a")
    \/ Cancel("a")
    \/ \E line \in CancelLines : RawInject("a", line)

CancelSpec == Init /\ [][CancelNext]_vars

\* the messages write_message can be handed: a Request, a Notification or a
\* Response, with an integer or a string id, params and result None, Some(Null)
\* or another value, or an error object with data None or Some(Null)
Sendable ==
    {Msg("Request", i, JStr("ping"), p, Absent, Absent) :
        i \in {JNum(1), JStr("1")}, p \in {Absent, JNull, JStr("p")}}
    \cup {NewNotification("event", p) : p \in {Absent, JNull, JStr("p")}}
    \cup {ResponseSuccess(i, r) :
            i \in {JNum(1), JStr("1")}, r \in {JNull, JNum(11)}}
    \cup {ResponseError(i, ERR_CHECKPOINT_NOT_FOUND, "Checkpoint not found") :
            i \in {JNum(1), JStr("1")}}
    \cup {Msg("Response", i, Absent, Absent, Absent,
               ErrObjNullData(ERR_CHECKPOINT_NOT_FOUND, "Checkpoint not found")) :
            i \in {JNum(1), JStr("1")}}

\* c's write_message is handed m
WriteAny(c, m) ==
    /\ Len(sent[c]) < MaxSent
    /\ ~closed[Peer(c)]
    /\ write_message(c, m)
    /\ UNCHANGED <<conn, closed, broken, nraw, history, calls>>
    /\ UNCHANGED capvars

\* "a" reads what the write_message of "b" wrote
CodecNext ==
    \/ OwnerStep("a")
    \/ \E m \in Sendable : WriteAny("b", m)
    \/ PeerClose("a")

CodecSpec == Init /\ [][CodecNext]_vars

\* a capability declaration, and its owner asking it the two inferenceRequest
\* questions in either order
CapInit ==
    /\ from_parts([c \in Conns |-> 0])
    /\ inbox = [c \in Conns |-> <<>>]
    /\ caps \in AllCapabilities
    /\ answers = {}

\* a call of method, which returns value
Answer(method, value) ==
    /\ \A a \in answers : a[1] # method
    /\ answers' = answers \cup {<<method, value>>}
    /\ UNCHANGED <<caps, connection>>

CapNext ==
    \/ Answer("has_inference_request", has_inference_request(caps))
    \/ Answer("has_inference_streaming", has_inference_streaming(caps))

CapSpec == CapInit /\ [][CapNext]_vars

\* ------------------------------------------------------------------ claims
\* c reads the line at the head of its stream in this step
Reads(c) == inbox[c] # <<>> /\ inbox'[c] = Tail(inbox[c])

IsPrefix(s, t) == Len(s) =< Len(t) /\ \A i \in DOMAIN s : s[i] = t[i]

Present(line, f) == line.kind = "object" /\ line[f].t # "absent"

\* a line that is a Response as the wire format defines it
WellFormedResponse(line) ==
    /\ Present(line, "id") /\ ~Present(line, "method")
    /\ Present(line, "result") \/ Present(line, "error")
    /\ line.jsonrpc.t = "str"
    /\ line.id.t \in {"num", "str"}
    /\ line.error.t \in {"absent", "null", "errobj", "errobjd"}

\* the id of the Request the running (or last) send_request of c built
AllocatedId(c) == requestIds[c][Len(requestIds[c])]

Requests(s) == SelectSeq(s, LAMBDA m : m.cls = "Request")

\* C1: the messages next_message has returned are, in order, the Requests
\* and Notifications the connection has read from the stream: none is
\* skipped, whichever operation read it.
C1_DeliveredInWireOrder ==
    \A c \in Conns : IsPrefix(delivered[c], readIncoming[c])

\* C2: send_request returns Ok(v) only on reading a Response whose id is the
\* id allocated to this call and which carries no error object, and v is
\* that Response's result (null when it has none).
C2_SuccessOnlyFromOwnResponse ==
    [][\A c \in Conns :
         (pc[c] = "send_request" /\ pc'[c] = "idle" /\ ret'[c].kind = "Ok")
         => /\ Reads(c)
            /\ WellFormedResponse(Head(inbox[c]))
            /\ Head(inbox[c]).id = JNum(AllocatedId(c))
            /\ Head(inbox[c]).error.t \in {"absent", "null"}
            /\ ret'[c].val = (IF Head(inbox[c]).result.t = "absent"
                              THEN JNull ELSE Head(inbox[c]).result)]_vars

C2_Witness ==
    /\ ret["a"].op = "send_request" /\ ret["a"].kind = "Ok"
    /\ ret["a"].val = JNum(12)
    /\ lastLine["a"] = RespLine(2)

\* C3: when send_request reads the Response with the awaited id and it
\* carries an error object, the call returns ConnectionError::Rpc with that
\* object's code and message, never a success payload.
C3_ErrorResponseGivesRpc ==
    [][\A c \in Conns :
         (/\ pc[c] = "send_request" /\ Reads(c)
          /\ WellFormedResponse(Head(inbox[c]))
          /\ Head(inbox[c]).id = JNum(AllocatedId(c))
          /\ Head(inbox[c]).error.t = "errobj")
         => /\ pc'[c] = "idle"
            /\ ret'[c].op = "send_request" /\ ret'[c].kind = "Rpc"
            /\ ret'[c].val.n = Head(inbox[c]).error.n
            /\ ret'[c].val.s = Head(inbox[c]).error.s]_vars

C3_Witness ==
    /\ ret["a"].op = "send_request" /\ ret["a"].kind = "Rpc"
    /\ ret["a"].val.n = -32005 /\ ret["a"].val.s = "Checkpoint not found"
    /\ lastLine["a"] = ErrLine(1)

\* C4: while send_request awaits id K, reading a Response with another id
\* does not end the call (it keeps reading, nothing is returned), and that
\* Response is neither kept for next_message nor ever returned by it.
C4_OtherResponseDiscarded ==
    /\ [][\A c \in Conns :
            (/\ pc[c] = "send_request" /\ Reads(c)
             /\ WellFormedResponse(Head(inbox[c]))
             /\ Head(inbox[c]).id # JNum(AllocatedId(c)))
            => /\ pc'[c] = "send_request" /\ awaiting'[c] = awaiting[c]
               /\ ret'[c] = ret[c]
               /\ readIncoming'[c] = readIncoming[c]
               /\ delivered'[c] = delivered[c]]_vars
    /\ [](\A c \in Conns : \A i \in DOMAIN delivered[c] :
            delivered[c][i].cls # "Response")

C4_Witness ==
    /\ pc["a"] = "send_request" /\ awaiting["a"] = 1
    /\ lastLine["a"] = RespLine(2)

\* C5: the i-th send_request on a connection builds its Request with id i
\* (1, 2, 3, ... whether earlier calls succeeded or failed), and the
\* Requests "a" has written to its outbound stream (all of them are still
\* in inbox["b"]: the peer of Spec takes nothing out) carry strictly
\* increasing ids, one Request per call while the stream is whole.
C5_IdsIncreaseFromOne ==
    /\ \A c \in Conns : \A i \in DOMAIN requestIds[c] : requestIds[c][i] = i
    /\ LET out == SelectSeq(inbox["b"], LAMBDA l : Present(l, "method")
                                                  /\ Present(l, "id"))
       IN /\ \A i, j \in DOMAIN out : i < j => out[i].id.n < out[j].id.n
          /\ \A i \in DOMAIN out : out[i].id.n >= 1
          /\ ~broken["a"] => Len(out) = Len(requestIds["a"])

C5_Witness ==
    /\ requestIds["a"] = <<1, 2>>
    /\ ret["a"].op = "send_request" /\ ret["a"].kind = "Io"
    /\ \E i \in DOMAIN inbox["b"] : inbox["b"][i].id = JNum(1)

\* C6: an operation blocked reading a stream that is closed and empty can
\* take its step at once, and the step it takes returns
\* ConnectionError::Closed.
C6_ClosedStreamReturnsClosed ==
    /\ [](\A c \in Conns :
            (pc[c] \in {"send_request", "next_message"}
             /\ inbox[c] = <<>> /\ closed[c]) => ENABLED ReadClosed(c))
    /\ [][\A c \in Conns :
            (/\ pc[c] \in {"send_request", "next_message"}
             /\ inbox[c] = <<>> /\ closed[c]
             /\ <<pc[c], ret[c]>>' # <<pc[c], ret[c]>>)
            => /\ pc'[c] = "idle"
               /\ ret'[c].op = pc[c] /\ ret'[c].kind = "Closed"]_vars

C6_Witness ==
    /\ ret["a"].op = "send_request" /\ ret["a"].kind = "Closed"
    /\ pc["a"] = "idle" /\ closed["a"]

\* C7: two connections with a send_request outstanding on both sides never
\* end up both blocked on empty streams, and no Request a connection has
\* read goes undelivered to its owner.
C7_NoDeadlockNoLoss ==
    /\ ~(\A c \in Conns :
           pc[c] = "send_request" /\ inbox[c] = <<>> /\ ~closed[c])
    /\ \A c \in Conns :
         pc[c] = "idle" => Requests(readIncoming[c]) = Requests(delivered[c])

\* C8: a line that parses as JSON is classified by the presence of id,
\* method, result and error alone: id and method give Request; otherwise id
\* with result or error gives Response; otherwise method without id gives
\* Notification; anything else is no message.
C8_ClassificationRule ==
    \A c \in Conns :
      LET line == lastLine[c]
          id == Present(line, "id")
          method == Present(line, "method")
          result == Present(line, "result")
          error == Present(line, "error")
      IN line.kind \in {"null", "scalar", "object"}
         => Classify(line) =
              CASE id /\ method -> "Request"
                [] id /\ ~method /\ (result \/ error) -> "Response"
                [] ~id /\ method -> "Notification"
                [] OTHER -> "Unrecognized"

C8_Witness ==
    /\ Present(lastLine["a"], "id") /\ Present(lastLine["a"], "method")
    /\ Present(lastLine["a"], "result") /\ Present(lastLine["a"], "error")
    /\ ret["a"].op = "next_message" /\ ret["a"].kind = "Ok"
    /\ ret["a"].msg.cls = "Request"

\* C9: reading a JSON line that matches none of the three classification
\* rules makes the running operation return the malformed-message error.
C9_UnrecognizedIsMalformedError ==
    [][\A c \in Conns :
         (/\ pc[c] \in {"send_request", "next_message"} /\ Reads(c)
          /\ Head(inbox[c]).kind \in {"null", "scalar", "object"}
          /\ ~(Present(Head(inbox[c]), "id") /\ Present(Head(inbox[c]), "method"))
          /\ ~(Present(Head(inbox[c]), "id")
               /\ (Present(Head(inbox[c]), "result")
                   \/ Present(Head(inbox[c]), "error")))
          /\ ~Present(Head(inbox[c]), "method"))
         => pc'[c] = "idle" /\ ret'[c].op = pc[c] /\ ret'[c].kind = "Json"]_vars

\* C10: next_message returns only a Request or a Notification; a Response
\* it reads is discarded and the call keeps reading.
C10_NextMessageOnlyIncoming ==
    [][\A c \in Conns :
         (pc[c] = "next_message" /\ Reads(c))
         => /\ WellFormedResponse(Head(inbox[c]))
               => pc'[c] = "next_message" /\ ret'[c] = ret[c]
                  /\ delivered'[c] = delivered[c]
            /\ (pc'[c] = "idle" /\ ret'[c].kind = "Ok")
               => /\ ret'[c].msg.cls \in {"Request", "Notification"}
                  /\ Present(Head(inbox[c]), "method")
                  /\ delivered'[c] = Append(delivered[c], ret'[c].msg)]_vars

C10_Witness ==
    /\ pc["a"] = "next_message" /\ requestIds["a"] = <<>>
    /\ lastLine["a"] = RespLine(1)
    /\ ret["a"] = NoRet /\ delivered["a"] = <<>>


\* the Requests and Notifications c has read but next_message has not returned
Undelivered(c) == Len(readIncoming[c]) - Len(delivered[c])

\* C11: next_message takes the oldest Request or Notification that was read
\* earlier and not yet returned, and reads a line of the stream only when no
\* such message is left.
C11_BufferDrainedBeforeStream ==
    [][\A c \in Conns :
          (pc[c] = "next_message" /\ Reads(c)) => Undelivered(c) = 0]_vars

\* c's call of send_request has returned a success value or an Rpc error
CallFinished(c) ==
    /\ pc[c] = "idle"
    /\ ret[c].op = "send_request"
    /\ ret[c].kind \in {"Ok", "Rpc"}

\* C12: when send_request has returned a success value or an Rpc error, no
\* pending-call record is left, neither for the finished id nor for another.
C12_NoPendingAfterReturn ==
    \A c \in Conns : CallFinished(c) => pending[c] = {}

\* C13: in every reachable state a connection records at most one pending
\* local call.
C13_AtMostOnePending ==
    \A c \in Conns : Cardinality(pending[c]) <= 1

\* c's owner calls op in this step
Calls(c, op) ==
    /\ Len(calls'[c]) = Len(calls[c]) + 1
    /\ calls'[c][Len(calls'[c])].op = op

\* the <<method, params>> of the send_notification calls of c's owner
NotificationsSent(c) ==
    {<<calls[c][i].method, calls[c][i].value>> :
        i \in {j \in DOMAIN calls[c] : calls[c][j].op = "send_notification"}}

\* send_notification returns in the step that writes, leaving next_id and
\* pending as they were
NotificationFrame ==
    [][\A c \in Conns :
         Calls(c, "send_notification")
         => /\ next_id'[c] = next_id[c] /\ pending'[c] = pending[c]
            /\ pc'[c] = "idle" /\ ret'[c].op = "send_notification"
            /\ ~broken[c] => /\ ret'[c].kind = "Ok"
                             /\ Len(inbox'[Peer(c)]) = Len(inbox[Peer(c)]) + 1
       ]_vars

\* C14 as stated: send_notification allocates no id and waits for nothing,
\* and a Notification the peer's next_message returns has no id and exactly
\* the method and params of a send_notification call (params None as None,
\* Some(v) as Some(v), null included).
C14_NotificationExactParams ==
    /\ NotificationFrame
    /\ [](\A c \in Conns : \A i \in DOMAIN delivered[c] :
            delivered[c][i].cls = "Notification"
            => /\ delivered[c][i].id = Absent
               /\ \E in \in NotificationsSent(Peer(c)) :
                     /\ delivered[c][i].method = JStr(in[1])
                     /\ delivered[c][i].params = in[2])

\* C14, amended: the same, except that params Some(Null) is received as
\* None.
C14_NotificationFrameAndDelivery ==
    /\ NotificationFrame
    /\ [](\A c \in Conns : \A i \in DOMAIN delivered[c] :
            delivered[c][i].cls = "Notification"
            => /\ delivered[c][i].id = Absent
               /\ \E in \in NotificationsSent(Peer(c)) :
                     /\ delivered[c][i].method = JStr(in[1])
                     /\ delivered[c][i].params
                          = (IF in[2] = JNull THEN Absent ELSE in[2]))

\* b's next_message returned the Notification a sent with params Some(Null)
C14_Witness ==
    /\ NotificationsSent("a") = {<<"event", JNull>>}
    /\ ret["a"].kind = "Ok" /\ next_id["a"] = 1 /\ pending["a"] = {}
    /\ ret["b"].op = "next_message" /\ ret["b"].kind = "Ok"
    /\ delivered["b"] = <<NewNotification("event", Absent)>>

\* the arguments of the call c's owner makes in this step
NewCall(c) == calls'[c][Len(calls'[c])]

\* the line c writes in this step
Written(c) == inbox'[Peer(c)][Len(inbox'[Peer(c)])]

\* C15: send_response and send_error write one line, a Response whose id is
\* the id they were given (same variant, same value); send_response's line
\* has the given result and no error, send_error's line has an error with
\* the given code and message and no result.
C15_ResponseEchoesIdOneOutcome ==
    [][\A c \in Conns :
         ((Calls(c, "send_response") \/ Calls(c, "send_error")) /\ ~broken[c])
         => /\ inbox'[Peer(c)] = Append(inbox[Peer(c)], Written(c))
            /\ WellFormedResponse(Written(c))
            /\ Written(c).id = NewCall(c).id
            /\ NewCall(c).op = "send_response"
               => /\ Present(Written(c), "result")
                  /\ Written(c).result = NewCall(c).value
                  /\ ~Present(Written(c), "error")
            /\ NewCall(c).op = "send_error"
               => /\ Written(c).error
                       = ErrObj(NewCall(c).code, NewCall(c).message)
                  /\ ~Present(Written(c), "result")]_vars

C15_Witness ==
    /\ ret["a"].op = "send_error" /\ ret["a"].kind = "Ok"
    /\ inbox["b"] # <<>>
    /\ inbox["b"][Len(inbox["b"])].id = JStr("1")
    /\ inbox["b"][Len(inbox["b"])].error.t = "errobj"

\* the line is a Response with id K (a Request of the peer may carry the
\* same number)
ResponseTo(line, K) == line.id = JNum(K) /\ ~Present(line, "method")

\* c's call K is outstanding, the peer's owner has got the Request from
\* next_message and has answered it with send_response(Number(K), r), and
\* that answer is the first Response to K on its way to c
Answered(c, K, r) ==
    /\ pc[c] = "send_request" /\ awaiting[c] = K
    /\ \E m \in {delivered[Peer(c)][i] : i \in DOMAIN delivered[Peer(c)]} :
          m.cls = "Request" /\ m.id = JNum(K)
    /\ \E j \in DOMAIN calls[Peer(c)] :
          /\ calls[Peer(c)][j].op = "send_response"
          /\ calls[Peer(c)][j].id = JNum(K) /\ calls[Peer(c)][j].value = r
    /\ \E i \in DOMAIN inbox[c] :
          /\ ResponseTo(inbox[c][i], K)
          /\ inbox[c][i].result = r /\ ~Present(inbox[c][i], "error")
          /\ \A j \in 1..(i - 1) : ~ResponseTo(inbox[c][j], K)

\* c's call K has returned Ok(r)
ReturnedOk(c, K, r) ==
    /\ pc[c] = "idle" /\ Len(requestIds[c]) = K
    /\ ret[c].op = "send_request" /\ ret[c].kind = "Ok" /\ ret[c].val = r

\* C16: when the peer's owner has obtained the Request of an outstanding
\* send_request from next_message and answered it with
\* send_response(req.id, r), the caller's send_request eventually returns,
\* and the step that ends it returns Ok(r).
C16_HandshakeLiveness ==
    /\ \A c \in Conns :
          (\E K \in 1..MaxPairOps, r \in ResultChoices : Answered(c, K, r))
              ~> (pc[c] = "idle")
    /\ [][\A c \in Conns : \A K \in 1..MaxPairOps : \A r \in ResultChoices :
            (Answered(c, K, r) /\ pc'[c] # pc[c]) => ReturnedOk(c, K, r)']_vars

C16_Witness ==
    /\ ReturnedOk("a", 1, JStr("r"))
    /\ \E j \in DOMAIN calls["b"] :
          /\ calls["b"][j].op = "send_response"
          /\ calls["b"][j].id = JNum(1) /\ calls["b"][j].value = JStr("r")
    /\ \E i \in DOMAIN delivered["b"] :
          /\ delivered["b"][i].cls = "Request"
          /\ delivered["b"][i].id = JNum(1)
          /\ delivered["b"][i].method = JStr(calls["a"][1].method)
          /\ delivered["b"][i].params = calls["a"][1].value

\* C18: a step that ends send_request gives Rpc only when it reads the
\* well-formed Response with the awaited id and that Response carries an
\* error object (whose code and message it returns); a closed stream or a
\* failed read ends the call with Closed or Io, a failed write with Io, and
\* a line that is no well-formed Response never ends it with Rpc or Ok.
C18_OutcomesNeverMixed ==
    [][\A c \in Conns :
         /\ (pc[c] = "send_request" /\ pc'[c] # "send_request")
            => /\ ret'[c].kind = "Rpc"
                  => /\ Reads(c) /\ WellFormedResponse(Head(inbox[c]))
                     /\ Head(inbox[c]).id = JNum(AllocatedId(c))
                     /\ Head(inbox[c]).error.t = "errobj"
                     /\ ret'[c].val = Head(inbox[c]).error
               /\ ~Reads(c) => ret'[c].kind \in {"Closed", "Io"}
               /\ (Reads(c) /\ ~WellFormedResponse(Head(inbox[c])))
                  => ret'[c].kind \notin {"Rpc", "Ok"}
         /\ (Calls(c, "send_request") /\ broken[c])
            => pc'[c] = "idle" /\ ret'[c].kind = "Io"]_vars

\* a line that has the awaited id and an error member that is no error
\* object ended the call with Json
C18_Witness ==
    /\ ret["a"].op = "send_request" /\ ret["a"].kind = "Json"
    /\ requestIds["a"] = <<1>>
    /\ lastLine["a"].id = JNum(1) /\ lastLine["a"].error = BadErrObj

\* the line c is about to read is a Response that answers no outstanding
\* call of c: c is in next_message, or in send_request awaiting another id
OrphanAhead(c) ==
    /\ pc[c] \in {"send_request", "next_message"}
    /\ inbox[c] # <<>> /\ WellFormedResponse(Head(inbox[c]))
    /\ ~(pc[c] = "send_request" /\ Head(inbox[c]).id = JNum(awaiting[c]))

\* C19: reading an orphaned Response never ends the operation that reads
\* it, so nothing is returned because of it, and no operation ever returns
\* UnexpectedResponse.
C19_OrphanNeverAnError ==
    /\ [][\A c \in Conns :
            (OrphanAhead(c) /\ Reads(c))
            => /\ pc'[c] = pc[c] /\ awaiting'[c] = awaiting[c]
               /\ ret'[c] = ret[c]]_vars
    /\ [](\A c \in Conns : ret[c].kind # "UnexpectedResponse")

C19_Witness ==
    /\ pc["a"] = "next_message" /\ ret["a"] = NoRet
    /\ lastLine["a"] = ErrLine(1) /\ nraw = 1 /\ inbox["a"] = <<>>

\* the line c is about to read is a Response to a call of c that has
\* already returned
LateResponseAhead(c) ==
    /\ pc[c] \in {"send_request", "next_message"}
    /\ inbox[c] # <<>> /\ WellFormedResponse(Head(inbox[c]))
    /\ \E K \in 1..Len(requestIds[c]) :
          Head(inbox[c]).id = JNum(K) /\ K # awaiting[c]

\* C20: the first Response read with the awaited id ends the call, and a
\* Response whose id is that of a call that has already returned is
\* discarded: the operation that reads it keeps reading, nothing is
\* returned or kept for next_message, and a later send_request still awaits
\* its own id.
C20_DuplicateResponseDiscarded ==
    [][\A c \in Conns :
         /\ (/\ pc[c] = "send_request" /\ Reads(c)
             /\ WellFormedResponse(Head(inbox[c]))
             /\ Head(inbox[c]).id = JNum(awaiting[c]))
            => pc'[c] = "idle" /\ ret'[c].kind \in {"Ok", "Rpc"}
         /\ (LateResponseAhead(c) /\ Reads(c))
            => /\ pc'[c] = pc[c] /\ awaiting'[c] = awaiting[c]
               /\ ret'[c] = ret[c]
               /\ readIncoming'[c] = readIncoming[c]
               /\ delivered'[c] = delivered[c]]_vars

\* call 1 returned Ok on the Response with id 1; the second call has read
\* another Response with id 1 and still awaits id 2
C20_Witness ==
    /\ pc["a"] = "send_request" /\ awaiting["a"] = 2
    /\ ret["a"].op = "send_request" /\ ret["a"].kind = "Ok"
    /\ ret["a"].val = JNum(11)
    /\ lastLine["a"] = RespLine(1) /\ pending["a"] = {JNum(2)}

\* the lines c has read, when all its lines come from its peer's write_message
NRead(c) == Len(sent[Peer(c)]) - Len(inbox[c])

\* the message whose line c read last, and what read_next_internal made of
\* that line
LastSent(c) == sent[Peer(c)][NRead(c)]

LastRead(c) == ReadLine(lastLine[c])

\* an Option<Value> in which Some(Null) counts as None
NullAsNone(v) == IF v = JNull THEN Absent ELSE v

\* an error object in which data Some(Null) counts as None
NullDataAsNone(e) == IF e.t = "errobjd" THEN ErrObj(e.n, e.s) ELSE e

\* C17 as stated: a message written by write_message and read by the peer
\* is decoded as a message of the same class with equal id (same variant),
\* method, params, result and error, null values included.
C17_RoundTripExact ==
    \A c \in Conns :
        NRead(c) > 0
        => /\ LastRead(c).r
                = (IF LastSent(c).cls = "Response" THEN "Response"
                                                   ELSE "Incoming")
           /\ LastRead(c).msg = LastSent(c)

\* C17, amended: the same, except that params, result or an error's data
\* Some(Null) is read back as None.
C17_RoundTrip ==
    \A c \in Conns :
        NRead(c) > 0
        => /\ LastRead(c).r
                = (IF LastSent(c).cls = "Response" THEN "Response"
                                                   ELSE "Incoming")
           /\ LastRead(c).msg
                = [LastSent(c) EXCEPT !.params = NullAsNone(@),
                                      !.result = NullAsNone(@),
                                      !.error = NullDataAsNone(@)]

\* "a" has read the error Response with a string id that "b" wrote
C17_Witness ==
    /\ NRead("a") = 1
    /\ LastSent("a")
         = ResponseError(JStr("1"), ERR_CHECKPOINT_NOT_FOUND,
                         "Checkpoint not found")
    /\ LastRead("a").msg = LastSent("a")

\* the owner of c has abandoned the send_request that awaited id K
Abandoned(c, K) ==
    \E j \in DOMAIN calls[c] :
        calls[c][j].op = "cancel" /\ calls[c][j].id = JNum(K)

\* C21: after the owner has abandoned the send_request awaiting K, a
\* Response with id K read by a later send_request (awaiting K' > K) is
\* discarded and the call goes on waiting; the Response with id K' then
\* ends that call with its own result or error.
C21_AbandonedIdDiscarded ==
    [][\A c \in Conns :
         (/\ pc[c] = "send_request" /\ Reads(c)
          /\ WellFormedResponse(Head(inbox[c]))
          /\ \E K \in 1..Len(requestIds[c]) : Abandoned(c, K))
         => /\ (\E K \in 1..Len(requestIds[c]) :
                  Abandoned(c, K) /\ Head(inbox[c]).id = JNum(K))
               => /\ awaiting[c] \notin {K \in 1..Len(requestIds[c]) :
                                            Abandoned(c, K)}
                  /\ pc'[c] = pc[c] /\ awaiting'[c] = awaiting[c]
                  /\ ret'[c] = ret[c]
            /\ Head(inbox[c]).id = JNum(awaiting[c])
               => /\ pc'[c] = "idle"
                  /\ Head(inbox[c]).error.t = "errobj"
                     => ret'[c].kind = "Rpc"
                  /\ Head(inbox[c]).error.t # "errobj"
                     => /\ ret'[c].kind = "Ok"
                        /\ ret'[c].val
                             = (IF Head(inbox[c]).result = Absent
                                THEN JNull ELSE Head(inbox[c]).result)]_vars

\* call 1 was abandoned; call 2 read the Response with id 1 (which removed
\* the record of call 1) and returned the result of the Response with id 2
C21_Witness ==
    /\ Abandoned("a", 1) /\ requestIds["a"] = <<1, 2>>
    /\ pc["a"] = "idle" /\ ret["a"].op = "send_request"
    /\ ret["a"].kind = "Ok" /\ ret["a"].val = JNum(12)
    /\ pending["a"] = {JNum(2)}

\* the returned value holds the text of the line
CarriesLine(r, line) == r.val = line \/ r.msg = line

\* C22: an operation that returns a malformed-message error because of the
\* line it read returns the text of that line in the error.
C22_MalformedCarriesRawLine ==
    [][\A c \in Conns :
         (Reads(c) /\ pc'[c] = "idle" /\ ret'[c].kind = "Json")
         => CarriesLine(ret'[c], Head(inbox[c]))]_vars

\* C23: a line that is empty or only whitespace is skipped by the read of
\* either operation: the operation goes on (nothing is returned, no error),
\* nothing is classified, kept or delivered, and the next read takes the
\* next line.
C23_BlankLineSkipped ==
    [][\A c \in Conns :
         (Reads(c) /\ Head(inbox[c]).kind = "blank")
         => /\ pc'[c] = pc[c] /\ awaiting'[c] = awaiting[c]
            /\ ret'[c] = ret[c]
            /\ readIncoming'[c] = readIncoming[c]
            /\ delivered'[c] = delivered[c]
            /\ pending'[c] = pending[c]
            /\ inbox'[c] = Tail(inbox[c])]_vars

\* next_message has read a blank line and is still blocked, with the next
\* line waiting
C23_Witness ==
    /\ pc["a"] = "next_message" /\ ret["a"] = NoRet
    /\ lastLine["a"] = BlankLine /\ inbox["a"] = <<NotifLine>>

\* the line is the well-formed Response with the awaited id and has neither
\* an error nor a result: each is missing or null
EmptyAnswerAhead(c) ==
    /\ pc[c] = "send_request" /\ inbox[c] # <<>>
    /\ WellFormedResponse(Head(inbox[c]))
    /\ Head(inbox[c]).id = JNum(awaiting[c])
    /\ Head(inbox[c]).error.t \in {"absent", "null"}
    /\ Head(inbox[c]).result.t \in {"absent", "null"}

\* C24: when the Response with the awaited id has no error and its result
\* is absent or null, send_request returns Ok(null) in the step that reads
\* it: it neither fails nor keeps waiting.
C24_EmptyResultIsNull ==
    [][\A c \in Conns :
         (EmptyAnswerAhead(c) /\ Reads(c))
         => /\ pc'[c] = "idle"
            /\ ret'[c] = Ret("send_request", "Ok", JNull, NoMsg)]_vars

\* the Response read had no result member and error: null
C24_Witness ==
    /\ pc["a"] = "idle" /\ requestIds["a"] = <<1>>
    /\ ret["a"] = Ret("send_request", "Ok", JNull, NoMsg)
    /\ lastLine["a"].id = JNum(1)
    /\ lastLine["a"].result = Absent /\ lastLine["a"].error = JNull

\* the calls of c's owner that write a message, in the order they were made
WritingCalls(c) ==
    SelectSeq(calls[c],
              LAMBDA a : a.op \in {"send_request", "send_notification",
                                   "send_response", "send_error"})

\* m is the message the call with arguments a writes
MessageOfCall(a, m) ==
    CASE a.op = "send_request" ->
           /\ m.cls = "Request" /\ m.id.t = "num"
           /\ m.method = JStr(a.method) /\ m.params = a.value
      [] a.op = "send_notification" ->
           /\ m.cls = "Notification" /\ m.id = Absent
           /\ m.method = JStr(a.method) /\ m.params = a.value
      [] a.op = "send_response" ->
           m.cls = "Response" /\ m.id = a.id /\ m.result = a.value
      [] OTHER ->
           /\ m.cls = "Response" /\ m.id = a.id
           /\ m.error = ErrObj(a.code, a.message)

\* the line holds the members of m
LineOfMessage(line, m) ==
    /\ line.kind = "object"
    /\ line.id = m.id /\ line.method = m.method /\ line.params = m.params
    /\ line.result = m.result /\ line.error = m.error

\* the Requests and Notifications among the first n messages c wrote
IncomingWritten(c, n) ==
    SelectSeq(SubSeq(sent[c], 1, n), LAMBDA m : m.cls # "Response")

\* C25: the messages a connection has written are those of its send_* calls
\* in call order; the lines not yet read by the peer are on the stream in
\* that order; the peer has read the lines before them, one after the
\* other, classifying each as the class it was written with, so that the
\* Requests and Notifications it has read are, in order, those written.
C25_WireOrderEndToEnd ==
    \A c \in Conns :
        LET p == Peer(c)
            w == WritingCalls(c)
            n == NRead(p)
            in == IncomingWritten(c, n)
        IN /\ n >= 0 /\ Len(sent[c]) <= Len(w)
           /\ \A i \in DOMAIN sent[c] : MessageOfCall(w[i], sent[c][i])
           /\ \A i \in DOMAIN inbox[p] :
                 LineOfMessage(inbox[p][i], sent[c][n + i])
           /\ n > 0 => /\ LineOfMessage(lastLine[p], sent[c][n])
                       /\ LastRead(p).msg.cls = sent[c][n].cls
           /\ Len(readIncoming[p]) = Len(in)
           /\ \A i \in DOMAIN in :
                 /\ readIncoming[p][i].cls = in[i].cls
                 /\ readIncoming[p][i].id = in[i].id
                 /\ readIncoming[p][i].method = in[i].method

\* b has read, in the order a's owner made the calls, the Notification and
\* then the Request a wrote
C25_Witness ==
    /\ Len(calls["a"]) = 2
    /\ calls["a"][1].op = "send_notification"
    /\ calls["a"][2].op = "send_request"
    /\ NRead("b") = 2
    /\ Len(readIncoming["b"]) = 2
    /\ readIncoming["b"][1].cls = "Notification"
    /\ readIncoming["b"][2].cls = "Request"

\* c's owner makes a call that writes a message in this step
WritingCall(c) ==
    /\ Len(calls'[c]) = Len(calls[c]) + 1
    /\ NewCall(c).op \in {"send_request", "send_notification",
                          "send_response", "send_error"}

\* the step that reads the line classifies it as one message
YieldsMessage(c) ==
    \/ /\ readIncoming'[c] = Append(readIncoming[c], LastRead(c)'.msg)
       /\ LastRead(c)'.r = "Incoming"
    \/ /\ readIncoming'[c] = readIncoming[c]
       /\ WellFormedResponse(Head(inbox[c]))

\* the step that reads the line ends the operation with an error
YieldsError(c) ==
    /\ pc'[c] = "idle" /\ ret'[c].op = pc[c]
    /\ ret'[c].kind = "Json"
    /\ readIncoming'[c] = readIncoming[c]

\* C26: a send operation whose write succeeds has put exactly one line, one
\* JSON object, on the stream when it returns, and one whose write fails
\* has put none; a read of a line that is not blank consumes that line and
\* yields either one classified message or one error, never both, never
\* neither.
C26_FramingOneToOne ==
    [][\A c \in Conns :
         /\ WritingCall(c)
            => IF broken[c]
               THEN /\ inbox'[Peer(c)] = inbox[Peer(c)]
                    /\ ret'[c].kind = "Io"
               ELSE /\ inbox'[Peer(c)] = Append(inbox[Peer(c)], Written(c))
                    /\ Written(c).kind = "object"
                    /\ NewCall(c).op # "send_request" => ret'[c].kind = "Ok"
         /\ (Reads(c) /\ Head(inbox[c]).kind # "blank")
            => /\ inbox'[c] = Tail(inbox[c])
               /\ YieldsMessage(c) # YieldsError(c)]_vars

\* C27: a step in which send_request returns is one that reads the
\* Response with the awaited id (Ok or Rpc), finds the stream at its end
\* (Closed), meets a transport failure (Io) or reads a malformed line
\* (Json); no other step ends it: while the stream is open and empty the
\* connection has no step to take; and no operation returns Timeout.
C27_NoBuiltInTimeout ==
    /\ [][\A c \in Conns :
            (pc[c] = "send_request" /\ pc'[c] = "idle")
            => \/ /\ Reads(c) /\ WellFormedResponse(Head(inbox[c]))
                  /\ Head(inbox[c]).id = JNum(awaiting[c])
                  /\ ret'[c].kind \in {"Ok", "Rpc"}
               \/ /\ inbox[c] = <<>> /\ closed[c] /\ ~Reads(c)
                  /\ ret'[c].kind = "Closed"
               \/ ~Reads(c) /\ ret'[c].kind = "Io"
               \/ /\ Reads(c) /\ ~WellFormedResponse(Head(inbox[c]))
                  /\ Head(inbox[c]).kind # "blank"
                  /\ ret'[c].kind = "Json"]_vars
    /\ [](\A c \in Conns :
            (pc[c] = "send_request" /\ inbox[c] = <<>> /\ ~closed[c])
            => ~ENABLED OwnerStep(c))
    /\ [](\A c \in Conns : ret[c].kind # "Timeout")

\* send_request has read a Notification and goes on waiting on an open,
\* empty stream
C27_Witness ==
    /\ pc["a"] = "send_request" /\ awaiting["a"] = 1
    /\ inbox["a"] = <<>> /\ ~closed["a"]
    /\ lastLine["a"].kind = "object" /\ readIncoming["a"] # <<>>
    /\ ret["a"] = NoRet

\* C28: a send_request on one connection leaves the other connection's
\* counter and allocated ids as they were, and on each connection the k-th
\* send_request is given id k (the first one id 1) and writes it in its
\* Request, however many calls the other connection has made.
C28_CounterIsConnectionLocal ==
    /\ [][\A c \in Conns :
            Calls(c, "send_request")
            => /\ next_id'[Peer(c)] = next_id[Peer(c)]
               /\ requestIds'[Peer(c)] = requestIds[Peer(c)]
               /\ next_id'[c] = next_id[c] + 1
               /\ requestIds'[c] = Append(requestIds[c], next_id[c])
               /\ ~broken[c] => Written(c).id = JNum(Len(requestIds[c]) + 1)
            ]_vars
    /\ [](\A c \in Conns :
            /\ next_id[c] = Len(requestIds[c]) + 1
            /\ \A i \in DOMAIN requestIds[c] : requestIds[c][i] = i)

\* each connection has made its first send_request, a's after b's, and
\* both were given id 1
C28_Witness ==
    /\ requestIds["a"] = <<1>> /\ requestIds["b"] = <<1>>
    /\ awaiting["a"] = 1 /\ awaiting["b"] = 1
    /\ inbox["a"] # <<>> /\ inbox["a"][1].id = JNum(1)
    /\ inbox["b"] # <<>> /\ inbox["b"][1].id = JNum(1)

\* the line has the members of a Request, a Response or a Notification, and
\* a member the struct of that class cannot take: jsonrpc that is no
\* string, an id that is neither integer nor string, a method that is no
\* string, an error that is no error object
FailsTypedDecoding(line) ==
    LET request == Present(line, "id") /\ Present(line, "method")
        response == /\ Present(line, "id") /\ ~Present(line, "method")
                    /\ Present(line, "result") \/ Present(line, "error")
        notification == ~Present(line, "id") /\ Present(line, "method")
    IN /\ request \/ response \/ notification
       /\ \/ line.jsonrpc.t # "str"
          \/ (request \/ response) /\ line.id.t \notin {"num", "str"}
          \/ (request \/ notification) /\ line.method.t # "str"
          \/ response
             /\ line.error.t \notin {"absent", "null", "errobj", "errobjd"}

\* C29: a line that has the members of a message class and fails the typed
\* decoding of that class ends the operation that reads it with the
\* malformed-message error; nothing is delivered or kept for it, as a
\* message of that class or of another.
C29_DecodingFailureIsError ==
    [][\A c \in Conns :
         (Reads(c) /\ FailsTypedDecoding(Head(inbox[c])))
         => /\ pc'[c] = "idle" /\ ret'[c].op = pc[c]
            /\ ret'[c].kind = "Json" /\ ret'[c].msg = NoMsg
            /\ readIncoming'[c] = readIncoming[c]
            /\ delivered'[c] = delivered[c]]_vars

\* next_message read a line with id: null and a method and returned the
\* error, delivering nothing
C29_Witness ==
    /\ pc["a"] = "idle" /\ ret["a"].op = "next_message"
    /\ ret["a"].kind = "Json"
    /\ lastLine["a"].jsonrpc = JStr("2.0") /\ lastLine["a"].id = JNull
    /\ lastLine["a"].method = JStr("ping")
    /\ delivered["a"] = <<>> /\ readIncoming["a"] = <<>>

\* a well-formed Request or Notification
WellFormedIncoming(line) ==
    /\ Present(line, "method") /\ line.method.t = "str"
    /\ line.jsonrpc.t = "str"
    /\ Present(line, "id") => line.id.t \in {"num", "str"}
    /\ ~Present(line, "result") /\ ~Present(line, "error")

\* the last operation of c returned the malformed-message error
ReturnedJson(c) == ret[c].kind = "Json"

\* C30: the step in which send_request or next_message returns the
\* malformed-message error takes exactly the offending line off the stream
\* and leaves the identifier counter, the stream and the writer as they
\* were; the connection then accepts a next_message, which passes over
\* blank lines and Responses and returns the first well-formed Request or
\* Notification it reads, with that line's id, method and params.
C30_JsonErrorKeepsConnection ==
    /\ [][\A c \in Conns :
            (/\ pc[c] \in {"send_request", "next_message"}
             /\ pc'[c] = "idle" /\ ReturnedJson(c)')
            => /\ inbox[c] # <<>> /\ inbox'[c] = Tail(inbox[c])
               /\ lastLine'[c] = Head(inbox[c])
               /\ next_id'[c] = next_id[c]
               /\ closed'[c] = closed[c] /\ broken'[c] = broken[c]
               /\ ret'[c].op = pc[c]]_vars
    /\ [](\A c \in Conns :
            (ReturnedJson(c) /\ pc[c] = "idle" /\ budget[c] > 0)
            => ENABLED next_message(c))
    /\ [][\A c \in Conns :
            (ReturnedJson(c) /\ pc[c] = "next_message" /\ Reads(c))
            => LET line == Head(inbox[c])
               IN /\ WellFormedIncoming(line)
                     => /\ pc'[c] = "idle"
                        /\ ret'[c].op = "next_message" /\ ret'[c].kind = "Ok"
                        /\ ret'[c].msg.cls =
                             (IF Present(line, "id") THEN "Request"
                              ELSE "Notification")
                        /\ ret'[c].msg.id = line.id
                        /\ ret'[c].msg.method = line.method
                        /\ ret'[c].msg.params = NullAsNone(line.params)
                        /\ delivered'[c] = Append(delivered[c], ret'[c].msg)
                  /\ (line = BlankLine \/ WellFormedResponse(line))
                     => /\ pc'[c] = "next_message" /\ ret'[c] = ret[c]
                        /\ delivered'[c] = delivered[c]]_vars

\* send_request has returned the malformed-message error for a garbage line,
\* its id 1 is spent, and the next_message called after it is about to read
\* the Notification that followed the garbage on the stream
C30_Witness ==
    /\ pc["a"] = "next_message" /\ ReturnedJson("a")
    /\ ret["a"].op = "send_request"
    /\ lastLine["a"] = GarbageLine /\ next_id["a"] = 2
    /\ inbox["a"] = <<NotifLine>> /\ ~closed["a"]

\* a well-formed Response to the call c is blocked in that has both a
\* result member and an error object
ResultAndError(c, line) ==
    /\ WellFormedResponse(line)
    /\ line.id = JNum(awaiting[c])
    /\ Present(line, "result")
    /\ line.error.t \in {"errobj", "errobjd"}

\* C31: when the Response with the awaited id has both a result and an error
\* object, send_request returns Rpc with the code and the message of the
\* error object, and the result is not returned.
C31_ErrorTakesPrecedence ==
    [][\A c \in Conns :
         (/\ pc[c] = "send_request" /\ Reads(c)
          /\ ResultAndError(c, Head(inbox[c])))
         => /\ pc'[c] = "idle" /\ ret'[c].op = "send_request"
            /\ ret'[c].kind = "Rpc"
            /\ ret'[c].val.n = Head(inbox[c]).error.n
            /\ ret'[c].val.s = Head(inbox[c]).error.s
            /\ ret'[c].val # Head(inbox[c]).result]_vars

\* send_request returned Rpc for a Response with result 11 and the
\* checkpoint-not-found error
C31_Witness ==
    /\ pc["a"] = "idle" /\ ret["a"].op = "send_request"
    /\ ret["a"].kind = "Rpc"
    /\ ret["a"].val.n = ERR_CHECKPOINT_NOT_FOUND
    /\ lastLine["a"].id = JNum(1) /\ lastLine["a"].result = JNum(11)
    /\ lastLine["a"].error.t = "errobj"

\* the operations that only write
SendOnlyOps == {"send_notification", "send_response", "send_error"}

\* C32: a call of send_notification, send_response or send_error, with the
\* write succeeding or failing, takes no line off the inbound stream, reads
\* and delivers nothing, and leaves the pending ids, the awaited id and the
\* identifier counter as they were; it returns Ok or the transport error at
\* once.
C32_SendOnlyNeverReads ==
    [][\A c \in Conns : \A op \in SendOnlyOps :
         Calls(c, op)
         => /\ inbox'[c] = inbox[c]
            /\ lastLine'[c] = lastLine[c]
            /\ readIncoming'[c] = readIncoming[c]
            /\ delivered'[c] = delivered[c]
            /\ pending'[c] = pending[c] /\ awaiting'[c] = awaiting[c]
            /\ next_id'[c] = next_id[c] /\ requestIds'[c] = requestIds[c]
            /\ pc'[c] = "idle" /\ ret'[c].op = op
            /\ ret'[c].kind = (IF broken[c] THEN "Io" ELSE "Ok")]_vars

\* a send_response whose write failed has returned while the two lines that
\* followed the Request it answers wait, unread, on the inbound stream
C32_Witness ==
    /\ pc["a"] = "idle" /\ ret["a"].op = "send_response"
    /\ ret["a"].kind = "Io"
    /\ inbox["a"] = <<NotifLine, RespLine(1)>> /\ lastLine["a"] = ReqLine
    /\ Len(delivered["a"]) = 1 /\ next_id["a"] = 1
    /\ calls["a"] # <<>> /\ calls["a"][Len(calls["a"])].op = "send_response"

\* C33: a send_request whose write fails returns the transport error in the
\* step of the call, reading nothing, and has taken its identifier all the
\* same: the counter has moved on by one, so the identifiers of the calls of
\* one connection, failed calls included, strictly increase.
C33_FailedCallKeepsItsId ==
    /\ [][\A c \in Conns :
            (Calls(c, "send_request") /\ broken[c])
            => /\ pc'[c] = "idle" /\ ret'[c].op = "send_request"
               /\ ret'[c].kind = "Io"
               /\ inbox'[c] = inbox[c] /\ lastLine'[c] = lastLine[c]
               /\ readIncoming'[c] = readIncoming[c]
               /\ sent'[c] = sent[c]
               /\ requestIds'[c] = Append(requestIds[c], next_id[c])
               /\ next_id'[c] = next_id[c] + 1]_vars
    /\ [][\A c \in Conns :
            (Calls(c, "send_request") /\ requestIds[c] # <<>>)
            => /\ Len(requestIds'[c]) = Len(requestIds[c]) + 1
               /\ AllocatedId(c)' = AllocatedId(c) + 1]_vars

\* two calls of send_request, both with the write failing: nothing was
\* written, the second call returned the transport error, and the calls were
\* given ids 1 and 2
C33_Witness ==
    /\ pc["a"] = "idle" /\ ret["a"].op = "send_request"
    /\ ret["a"].kind = "Io"
    /\ broken["a"] /\ sent["a"] = <<>>
    /\ requestIds["a"] = <<1, 2>> /\ next_id["a"] = 3

\* method was called and returned value
Returned(method, value) == <<method, value>> \in answers

\* C34: for every McplCapabilities value, has_inference_streaming returns
\* true only if has_inference_request does; with inferenceRequest absent
\* both return false, with Simple(b) the first returns b and the second
\* false, with Detailed{streaming} the first returns true and the second
\* the flag.
C34_StreamingImpliesEnabled ==
    LET ir == caps.inference_request
        enabled == IF ir = None THEN FALSE
                   ELSE IF ir[1].tag = "Simple" THEN ir[1].streaming
                   ELSE TRUE
        streaming == IF ir = None THEN FALSE
                     ELSE IF ir[1].tag = "Simple" THEN FALSE
                     ELSE ir[1].streaming
    IN /\ ~(/\ Returned("has_inference_streaming", TRUE)
             /\ Returned("has_inference_request", FALSE))
       /\ \A b \in BOOLEAN :
            /\ Returned("has_inference_request", b) => b = enabled
            /\ Returned("has_inference_streaming", b) => b = streaming

\* both questions were asked of a declaration with
\* inferenceRequest: {streaming: true} and both were answered true
C34_Witness ==
    /\ caps.inference_request = Some(Detailed(TRUE))
    /\ answers = {<<"has_inference_request", TRUE>>,
                  <<"has_inference_streaming", TRUE>>}

====
